---- MODULE Spec2Model ----
(***************************************************************************)
(* babel-plugin-undebug (src/index.js): the Program visitor that removes   *)
(* the `debug` module and everything derived from it.                      *)
(*                                                                         *)
(* The syntax tree is a tree of uniform records                            *)
(*     [type |-> node type, name |-> string, kids |-> children]            *)
(* whose children are listed in Babel's visiting order (VISITOR_KEYS):     *)
(*   Program                  kids = body statements                       *)
(*   ImportDeclaration        name = source literal, kids = specifiers     *)
(*   Import*Specifier         kids = <<local Identifier>>                  *)
(*   VariableDeclaration      kids = declarations                          *)
(*   VariableDeclarator       kids = <<id>> or <<id, init>>                *)
(*   ObjectPattern            kids = properties                            *)
(*   ObjectProperty           name = key, kids = <<value>>                 *)
(*   RestElement              kids = <<argument>>                          *)
(*   ExpressionStatement      kids = <<expression>>                        *)
(*   FunctionDeclaration      kids = <<id>> \o body statements             *)
(*   CallExpression           kids = <<callee>> \o arguments               *)
(*   MemberExpression         name = property, kids = <<object>>           *)
(*   AssignmentExpression     kids = <<left, right>>                       *)
(*   Identifier               name = the identifier                        *)
(*   StringLiteral            name = the value                             *)
(* A path (Babel's NodePath) is the sequence of child indices from the     *)
(* Program node; it identifies a node of the input tree for the whole run. *)
(* A binding is identified by its name: the programs of the model declare  *)
(* every name at most once, in the program scope.                          *)
(***************************************************************************)
EXTENDS Naturals, Sequences, FiniteSets

VARIABLES
    prog,             \* the input tree of the Program visit
    phase,            \* "run", "done" or "error"
    pos,              \* the next entry of Visits(prog) to visit
    debugReferences,  \* the tainted bindings
    pathsToRemove,    \* the paths collected for removal, in insertion order
    replaced,         \* the member expressions replaced by `undefined`
    tree,             \* what the removals have done to the tree so far
    ri,               \* the next entry of pathsToRemove to remove
    queue,            \* the nodes the traversal visits, in order
    scope             \* the bindings of the program scope

vars == <<prog, phase, pos, debugReferences, pathsToRemove, replaced, tree, ri,
          queue, scope>>

\* The longest program body (statements after the optional seeding statement).
MaxBody == 2

----------------------------------------------------------------------------
(* Tree construction *)

Node(type, name, kids) == [type |-> type, name |-> name, kids |-> kids]

Id(n) == Node("Identifier", n, <<>>)
Lit(v) == Node("StringLiteral", v, <<>>)
Call(callee, args) == Node("CallExpression", "", <<callee>> \o args)
Member(obj, prop) == Node("MemberExpression", prop, <<obj>>)
Assign(left, right) == Node("AssignmentExpression", "", <<left, right>>)
ExprStmt(e) == Node("ExpressionStatement", "", <<e>>)
Declarator(id, init) == Node("VariableDeclarator", "", <<id, init>>)
VarDecl(ds) == Node("VariableDeclaration", "var", ds)
Prop(key, value) == Node("ObjectProperty", key, <<value>>)
Rest(arg) == Node("RestElement", "", <<arg>>)
ObjPat(props) == Node("ObjectPattern", "", props)
ImportSpec(kind, local) == Node(kind, "", <<Id(local)>>)
Import(source, specs) == Node("ImportDeclaration", source, specs)
Func(n, body) == Node("FunctionDeclaration", n, <<Id(n)>> \o body)
Program(body) == Node("Program", "", body)

\* `undefined`: the name of a property that a node does not have.
Undefined == ""

----------------------------------------------------------------------------
(* Paths *)

RECURSIVE NodeAt(_, _)
NodeAt(t, p) == IF p = <<>> THEN t ELSE NodeAt(t.kids[Head(p)], Tail(p))

Parent(p) == SubSeq(p, 1, Len(p) - 1)
Key(p) == p[Len(p)]

IsPrefix(q, p) == Len(q) <= Len(p) /\ SubSeq(p, 1, Len(q)) = q

\* The paths of the subtree of t at p, in depth-first pre-order.
RECURSIVE PathsFrom(_, _, _)
RECURSIVE KidPaths(_, _, _)
PathsFrom(t, p, n) == <<p>> \o KidPaths(n, p, 1)
KidPaths(n, p, i) ==
    IF i > Len(n.kids) THEN <<>>
    ELSE PathsFrom(n.kids[i], Append(p, i), n.kids[i]) \o KidPaths(n, p, i + 1)

AllPaths(t) == PathsFrom(t, <<>>, t)

Range(s) == {s[i] : i \in 1..Len(s)}

\* The paths of the nodes of the given type in the subtree n standing at p.
RECURSIVE TypedPaths(_, _, _)
TypedPaths(n, p, type) ==
    (IF n.type = type THEN {p} ELSE {})
        \cup UNION {TypedPaths(n.kids[i], Append(p, i), type) : i \in 1..Len(n.kids)}

----------------------------------------------------------------------------
(* The scope: path.scope.getBinding(name) *)

\* No path (findParent found nothing).
NoPath == <<0>>

\* The identifiers that declare a binding: the local of an import specifier,
\* the id of a declarator or of a function, the names of an object pattern.
IsBindingIdentifier(t, p) ==
    /\ p # <<>>
    /\ NodeAt(t, p).type = "Identifier"
    /\ LET par == NodeAt(t, Parent(p))
       IN \/ par.type \in {"ImportDefaultSpecifier", "ImportSpecifier",
                           "ImportNamespaceSpecifier", "ObjectProperty",
                           "RestElement"}
          \/ par.type \in {"VariableDeclarator", "FunctionDeclaration"}
               /\ Key(p) = 1

RECURSIVE DeclaredIn(_)
RECURSIVE DeclaredInKids(_, _)
DeclaredIn(n) ==
    (IF /\ n.type \in {"ImportDefaultSpecifier", "ImportSpecifier",
                       "ImportNamespaceSpecifier", "ObjectProperty", "RestElement",
                       "VariableDeclarator", "FunctionDeclaration"}
        /\ n.kids[1].type = "Identifier"
     THEN <<n.kids[1].name>> ELSE <<>>) \o DeclaredInKids(n, 1)
DeclaredInKids(n, i) ==
    IF i > Len(n.kids) THEN <<>> ELSE DeclaredIn(n.kids[i]) \o DeclaredInKids(n, i + 1)

Bindings(t) == Range(DeclaredIn(t))

\* getBinding(name) is the binding (here: the name) or nothing; sc is the
\* set of the bindings of the program, which Babel collects before the visit.
HasBinding(sc, name) == name # Undefined /\ name \in sc

\* node.name of a node: undefined for a node that is no Identifier.
NameOf(n) == IF n.type = "Identifier" THEN n.name ELSE Undefined

----------------------------------------------------------------------------
(* The analysis state of one Program visit:                                *)
(*   refs  debugReferences, the set of tainted bindings                    *)
(*   rm    pathsToRemove, a JavaScript Set: insertion-ordered, no repeats  *)
(*   repl  the member expressions replaced by `undefined` (replaceWith)    *)
(*   err   a TypeError was thrown                                          *)
(*   scope the bindings of the program (path.scope)                        *)

NewState(t) ==
    [scope |-> Bindings(t), refs |-> {}, rm |-> <<>>, repl |-> {}, err |-> FALSE]

SetAdd(s, x) == IF x \in Range(s) THEN s ELSE Append(s, x)

\* if (binding) debugReferences.add(binding)
AddBinding(st, name) ==
    IF HasBinding(st.scope, name) THEN [st EXCEPT !.refs = @ \cup {name}] ELSE st

\* A slip: the collection is overwritten by each new path instead of added to.
AddPathOverwrites(st, p) == [st EXCEPT !.rm = <<p>>]

\* pathsToRemove.add(path)
AddPath(st, p) == [st EXCEPT !.rm = SetAdd(@, p)]

getVariablePathToRemove(t, declarator) ==
    LET variableDeclaration == Parent(declarator)
    IN IF Len(NodeAt(t, variableDeclaration).kids) = 1
       THEN variableDeclaration
       ELSE declarator

\* require('debug'): a call of the identifier `require` whose first argument
\* has the value 'debug'.
IsRequireDebug(n) ==
    /\ n.type = "CallExpression"
    /\ n.kids[1].type = "Identifier" /\ n.kids[1].name = "require"
    /\ Len(n.kids) > 1
    /\ n.kids[2].type = "StringLiteral" /\ n.kids[2].name = "debug"

HasInit(n) == Len(n.kids) > 1

\* properties.forEach(prop => getBinding(prop.value.name) ...): a RestElement
\* has no `value`, and reading `.name` of undefined throws.
RECURSIVE TaintProperties(_, _, _, _)
TaintProperties(t, st, props, i) ==
    IF i > Len(props) THEN st
    ELSE IF props[i].type = "RestElement" THEN [st EXCEPT !.err = TRUE]
    ELSE TaintProperties(t, AddBinding(st, NameOf(props[i].kids[1])), props, i + 1)

VariableDeclaratorRequire(t, st, p) ==
    LET n == NodeAt(t, p)
    IN IF HasInit(n) /\ IsRequireDebug(n.kids[2])
       THEN AddPath(AddBinding(st, NameOf(n.kids[1])), getVariablePathToRemove(t, p))
       ELSE st

VariableDeclaratorRequireCall(t, st, p) ==
    LET n == NodeAt(t, p)
    IN IF HasInit(n) /\ n.kids[2].type = "CallExpression"
            /\ IsRequireDebug(n.kids[2].kids[1])
       THEN AddPath(AddBinding(st, NameOf(n.kids[1])), getVariablePathToRemove(t, p))
       ELSE st

VariableDeclaratorDestructuring(t, st, p) ==
    LET n == NodeAt(t, p)
    IN IF /\ n.kids[1].type = "ObjectPattern"
          /\ HasInit(n) /\ n.kids[2].type = "Identifier"
          /\ HasBinding(st.scope, n.kids[2].name) /\ n.kids[2].name \in st.refs
       THEN LET st2 == TaintProperties(t, st, n.kids[1].kids, 1)
            IN IF st2.err THEN st2
               ELSE AddPath(st2, getVariablePathToRemove(t, p))
       ELSE st

VariableDeclarator(t, st, p) ==
    VariableDeclaratorDestructuring(t,
        VariableDeclaratorRequireCall(t, VariableDeclaratorRequire(t, st, p), p), p)

RECURSIVE TaintSpecifiers(_, _, _, _)
TaintSpecifiers(t, st, specs, i) ==
    IF i > Len(specs) THEN st
    ELSE TaintSpecifiers(t, AddBinding(st, specs[i].kids[1].name), specs, i + 1)

\* A slip: the namespace specifier is left out.
RECURSIVE TaintSpecifiersButNamespace(_, _, _, _)
TaintSpecifiersButNamespace(t, st, specs, i) ==
    IF i > Len(specs) THEN st
    ELSE IF specs[i].type = "ImportNamespaceSpecifier"
    THEN TaintSpecifiersButNamespace(t, st, specs, i + 1)
    ELSE TaintSpecifiersButNamespace(t, AddBinding(st, specs[i].kids[1].name), specs, i + 1)

ImportDeclarationButNamespace(t, st, p) ==
    LET n == NodeAt(t, p)
    IN IF n.name = "debug"
       THEN AddPath(TaintSpecifiersButNamespace(t, st, n.kids, 1), p)
       ELSE st

ImportDeclaration(t, st, p) ==
    LET n == NodeAt(t, p)
    IN IF n.name = "debug"
       THEN AddPath(TaintSpecifiers(t, st, n.kids, 1), p)
       ELSE st

\* memberExp.findParent(p => p.isVariableDeclarator()): the nearest strict
\* ancestor that is a declarator.
RECURSIVE FindDeclarator(_, _)
FindDeclarator(t, p) ==
    IF p = <<>> THEN NoPath
    ELSE IF NodeAt(t, Parent(p)).type = "VariableDeclarator" THEN Parent(p)
    ELSE FindDeclarator(t, Parent(p))

IdentifierDirectCall(t, st, p) ==
    IF NodeAt(t, Parent(p)).type = "CallExpression" /\ Key(p) = 1
    THEN AddPath(st, Parent(Parent(p)))
    ELSE st

IdentifierAlias(t, st, p) ==
    LET parentPath == Parent(p)
    IN IF NodeAt(t, parentPath).type = "VariableDeclarator" /\ Key(p) = 2
       THEN AddPath(AddBinding(st, NameOf(NodeAt(t, parentPath).kids[1])),
                    getVariablePathToRemove(t, parentPath))
       ELSE st

IdentifierMember(t, st, p) ==
    LET memberExp == Parent(p)
        isInDeclaration == FindDeclarator(t, memberExp)
    IN IF NodeAt(t, memberExp).type # "MemberExpression" THEN st
       ELSE IF NodeAt(t, Parent(memberExp)).type = "CallExpression" /\ Key(memberExp) = 1
       THEN AddPath(st, Parent(Parent(memberExp)))
       ELSE IF isInDeclaration # NoPath
       THEN AddPath(AddBinding(st, NameOf(NodeAt(t, isInDeclaration).kids[1])),
                    getVariablePathToRemove(t, isInDeclaration))
       ELSE [st EXCEPT !.repl = @ \cup {memberExp}]

\* A slip: the binding is not looked up in debugReferences.
IdentifierOfAnyBinding(t, st, p) ==
    LET n == NodeAt(t, p)
    IN IF NodeAt(t, Parent(p)).type = "VariableDeclarator" /\ Key(p) = 1 THEN st
       ELSE IF HasBinding(st.scope, n.name)
       THEN IdentifierMember(t, IdentifierAlias(t, IdentifierDirectCall(t, st, p), p), p)
       ELSE st

Identifier(t, st, p) ==
    LET n == NodeAt(t, p)
    IN IF NodeAt(t, Parent(p)).type = "VariableDeclarator" /\ Key(p) = 1 THEN st
       ELSE IF HasBinding(st.scope, n.name) /\ n.name \in st.refs
       THEN IdentifierMember(t, IdentifierAlias(t, IdentifierDirectCall(t, st, p), p), p)
       ELSE st

\* A slip: the binding declared from the call's result is not tracked.
CallExpressionDirectUntracked(t, st, p) ==
    LET callee == NodeAt(t, p).kids[1]
        parent == Parent(p)
    IN IF callee.type = "Identifier" /\ HasBinding(st.scope, callee.name)
            /\ callee.name \in st.refs
       THEN IF NodeAt(t, parent).type = "VariableDeclarator"
            THEN AddPath(st, getVariablePathToRemove(t, parent))
            ELSE AddPath(st, parent)
       ELSE st

CallExpressionDirect(t, st, p) ==
    LET callee == NodeAt(t, p).kids[1]
        parent == Parent(p)
    IN IF callee.type = "Identifier" /\ HasBinding(st.scope, callee.name)
            /\ callee.name \in st.refs
       THEN IF NodeAt(t, parent).type = "VariableDeclarator"
            THEN AddPath(AddBinding(st, NameOf(NodeAt(t, parent).kids[1])),
                         getVariablePathToRemove(t, parent))
            ELSE AddPath(st, parent)
       ELSE st

CallExpressionMethod(t, st, p) ==
    LET callee == NodeAt(t, p).kids[1]
    IN IF /\ callee.type = "MemberExpression"
          /\ callee.kids[1].type = "Identifier"
          /\ HasBinding(st.scope, callee.kids[1].name)
          /\ callee.kids[1].name \in st.refs
       THEN AddPath(st, Parent(p))
       ELSE st

CallExpression(t, st, p) ==
    CallExpressionMethod(t, CallExpressionDirect(t, st, p), p)

\* The node types the visitor has a handler for.
VisitedTypes ==
    {"VariableDeclarator", "ImportDeclaration", "Identifier", "CallExpression"}

\* path.traverse(visitor): the nodes below Program that have a handler, in
\* depth-first pre-order.
Visits(t) ==
    SelectSeq(AllPaths(t), LAMBDA p : NodeAt(t, p).type \in VisitedTypes)

Visit(t, st, p) ==
    LET type == NodeAt(t, p).type
    IN IF type = "VariableDeclarator" THEN VariableDeclarator(t, st, p)
       ELSE IF type = "ImportDeclaration" THEN ImportDeclaration(t, st, p)
       ELSE IF type = "Identifier" THEN Identifier(t, st, p)
       ELSE CallExpression(t, st, p)


\* The whole traversal, stopped by a thrown error.
RECURSIVE AnalyseFrom(_, _, _, _)
AnalyseFrom(t, st, vs, i) ==
    IF i > Len(vs) \/ st.err THEN st
    ELSE AnalyseFrom(t, Visit(t, st, vs[i]), vs, i + 1)

Analyse(t) == AnalyseFrom(t, NewState(t), Visits(t), 1)

----------------------------------------------------------------------------
(* path.remove(), as Babel implements it.  The state of the tree:          *)
(*   spliced  nodes taken out of the list that held them                   *)
(*   nulled   nodes whose place now holds null                             *)
(*   gone     paths marked removed (path.node is null)                     *)
(*   err      a removal threw                                              *)

Intact == [spliced |-> {}, nulled |-> {}, gone |-> {}, err |-> FALSE]

\* The children Babel keeps in a list (container is an array): statements,
\* declarations, specifiers, properties, call arguments.
InList(parentNode, key) ==
    \/ parentNode.type \in {"Program", "VariableDeclaration", "ImportDeclaration",
                            "ObjectPattern"}
    \/ parentNode.type \in {"CallExpression", "FunctionDeclaration"} /\ key > 1

\* A child that may be null: the init of a declarator.
IsOptional(parentNode, key) == parentNode.type = "VariableDeclarator" /\ key = 2

\* node.declarations.length and the like: the children still in the list.
LiveKids(t, m, p) ==
    Cardinality({i \in 1..Len(NodeAt(t, p).kids) : Append(p, i) \notin m.spliced})

\* The removal hooks remove the parent instead: a declaration left without
\* declarators, an expression statement left without expression.  Otherwise
\* the node is spliced out of its list, or replaced by null where the parent
\* allows it (validate throws where it does not).
RECURSIVE Remove(_, _, _)
Remove(t, m, p) ==
    LET par == Parent(p)
        parentNode == NodeAt(t, par)
        parentAlive == par \notin m.gone
        removeParent ==
            /\ parentAlive
            /\ \/ parentNode.type = "VariableDeclaration" /\ LiveKids(t, m, par) = 1
               \/ parentNode.type = "ExpressionStatement"
    IN IF removeParent
       THEN [Remove(t, m, par) EXCEPT !.gone = @ \cup {p}]
       ELSE IF InList(parentNode, Key(p))
       THEN [m EXCEPT !.spliced = @ \cup {p}, !.gone = @ \cup {p}]
       ELSE IF parentAlive /\ ~IsOptional(parentNode, Key(p))
       THEN [m EXCEPT !.err = TRUE]
       ELSE [m EXCEPT !.nulled = @ \cup {p}, !.gone = @ \cup {p}]

\* One round of the removal loop: if (path.node) path.remove()
RemoveOne(t, m, p) == IF p \in m.gone THEN m ELSE Remove(t, m, p)

RECURSIVE RemoveFrom(_, _, _, _)
RemoveFrom(t, m, rm, i) ==
    IF i > Len(rm) \/ m.err THEN m
    ELSE RemoveFrom(t, RemoveOne(t, m, rm[i]), rm, i + 1)

RemoveAll(t, rm) == RemoveFrom(t, Intact, rm, 1)

----------------------------------------------------------------------------
(* The tree the host prints: the input tree with the replaced members and  *)
(* without the removed nodes.                                              *)

RECURSIVE Render(_, _, _, _)
RECURSIVE RenderKids(_, _, _, _, _)
Render(t, m, repl, p) ==
    IF p \in repl THEN Id("undefined")
    ELSE LET n == NodeAt(t, p)
         IN [n EXCEPT !.kids = RenderKids(t, m, repl, p, 1)]
RenderKids(t, m, repl, p, i) ==
    IF i > Len(NodeAt(t, p).kids) THEN <<>>
    ELSE IF Append(p, i) \in m.spliced \cup m.nulled
    THEN RenderKids(t, m, repl, p, i + 1)
    ELSE <<Render(t, m, repl, Append(p, i))>> \o RenderKids(t, m, repl, p, i + 1)

\* What a thrown error leaves instead of a tree.
Thrown == Node("TypeError", "", <<>>)

\* The Program visitor as a function of the tree.
Transform(t) ==
    IF t = Thrown THEN Thrown
    ELSE LET st == Analyse(t)
             m == RemoveAll(t, st.rm)
         IN IF st.err \/ m.err THEN Thrown ELSE Render(t, m, st.repl, <<>>)


----------------------------------------------------------------------------
(* The input programs of the model.  A program is an optional seeding      *)
(* statement followed by at most MaxBody statements; d is the binding the  *)
(* seeding statement declares, a and b the bindings derived from it, o and *)
(* q unrelated variables, f, h and require globals.                        *)

Str == Lit("s")
Default(local) == ImportSpec("ImportDefaultSpecifier", local)
Named(local) == ImportSpec("ImportSpecifier", local)
Namespace(local) == ImportSpec("ImportNamespaceSpecifier", local)
Require(args) == Call(Id("require"), args)
Var(name, init) == Declarator(Id(name), init)

Seeds ==
    { <<>>,
      <<Import("debug", <<Default("d")>>)>>,                 \* import d from "debug"
      <<Import("debug", <<Namespace("d")>>)>>,               \* import * as d from "debug"
      <<Import("debug", <<Default("d"), Named("a")>>)>>,     \* import d, {debug as a} from "debug"
      <<Import("assert", <<Default("d")>>)>>,                \* import d from "assert"
      <<VarDecl(<<Var("d", Require(<<Lit("debug")>>))>>)>>,  \* var d = require("debug")
      <<VarDecl(<<Var("a", Call(Require(<<Lit("debug")>>), <<Str>>))>>)>>,
                                                             \* var a = require("debug")("s")
      <<VarDecl(<<Var("o", Str), Var("d", Require(<<Lit("debug")>>))>>)>>,
                                                             \* var o = "s", d = require("debug")
      <<VarDecl(<<Var("r", Require(<<>>)), Var("d", Require(<<Lit("assert")>>))>>)>>,
                                                             \* var r = require(), d = require("assert")
      <<VarDecl(<<Declarator(ObjPat(<<Prop("a", Id("a"))>>), Require(<<Lit("debug")>>))>>)>>
                                                             \* var {a} = require("debug")
    }

Declarations ==
    { VarDecl(<<Var("a", Call(Id("d"), <<Str>>))>>),         \* var a = d("s")
      VarDecl(<<Var("b", Id("a"))>>),                         \* var b = a
      VarDecl(<<Var("b", Member(Id("a"), "log"))>>),          \* var b = a.log
      VarDecl(<<Var("b", Call(Member(Id("a"), "extend"), <<Str>>))>>),
                                                             \* var b = a.extend("s")
      VarDecl(<<Var("b", Call(Id("f"), <<Member(Id("a"), "enabled")>>))>>),
                                                             \* var b = f(a.enabled)
      VarDecl(<<Declarator(ObjPat(<<Prop("a", Id("a")), Prop("b", Id("b"))>>), Id("d"))>>),
                                                             \* var {a, b} = d
      VarDecl(<<Declarator(ObjPat(<<Prop("a", Id("a")), Rest(Id("b"))>>), Id("d"))>>),
                                                             \* var {a, ...b} = d
      VarDecl(<<Var("a", Call(Id("d"), <<Str>>)), Var("o", Str), Var("q", Str)>>),
                                                             \* var a = d("s"), o = "s", q = "s"
      VarDecl(<<Var("o", Str), Var("b", Id("a")), Var("q", Str)>>)
                                                             \* var o = "s", b = a, q = "s"
    }

Expressions ==
    { Call(Id("a"), <<Str>>),                                 \* a("s")
      Call(Id("b"), <<Str>>),                                 \* b("s")
      Call(Member(Id("a"), "log"), <<Str>>),                  \* a.log("s")
      Call(Id("f"), <<Str, Member(Id("a"), "enabled")>>),     \* f("s", a.enabled)
      Call(Id("f"), <<Id("b")>>),                             \* f(b)
      Call(Id("h"), <<Call(Id("f"), <<Call(Id("a"), <<Str>>)>>)>>),
                                                             \* h(f(a("s")))
      Assign(Id("o"), Call(Id("a"), <<Str>>)),                \* o = a("s")
      Call(Call(Id("a"), <<Str>>), <<Str>>),                  \* a("s")("s")
      Call(Id("f"), <<Require(<<Lit("debug")>>)>>)            \* f(require("debug"))
    }

Functions ==
    { Func("g", <<ExprStmt(Call(Id("b"), <<Str>>))>>) }      \* function g() { b("s") }

Statements == Declarations \cup {ExprStmt(e) : e \in Expressions} \cup Functions

Bodies == UNION {[1..n -> Statements] : n \in 0..MaxBody}

\* Every name is declared at most once.
DeclaredOnce(t) ==
    Len(DeclaredIn(t)) = Cardinality(Bindings(t))

Programs ==
    {t \in {Program(seed \o body) : seed \in Seeds, body \in Bodies} : DeclaredOnce(t)}

----------------------------------------------------------------------------
(* The Program visitor, step by step *)

Traversing == phase = "run" /\ pos <= Len(queue)

Current == [scope |-> scope, refs |-> debugReferences, rm |-> pathsToRemove,
            repl |-> replaced, err |-> FALSE]

\* The node the traversal is at.
Here == queue[pos]

\* What a handler leaves: the two sets and the replacements; a thrown error
\* ends the run.
Leave(st) ==
    /\ debugReferences' = st.refs
    /\ pathsToRemove' = st.rm
    /\ replaced' = st.repl
    /\ phase' = IF st.err THEN "error" ELSE "run"
    /\ pos' = pos + 1
    /\ UNCHANGED <<prog, tree, ri, queue, scope>>

VisitVariableDeclarator ==
    /\ Traversing
    /\ NodeAt(prog, Here).type = "VariableDeclarator"
    /\ Leave(VariableDeclarator(prog, Current, Here))

VisitImportDeclaration ==
    /\ Traversing
    /\ NodeAt(prog, Here).type = "ImportDeclaration"
    /\ Leave(ImportDeclaration(prog, Current, Here))

VisitIdentifier ==
    /\ Traversing
    /\ NodeAt(prog, Here).type = "Identifier"
    /\ Leave(Identifier(prog, Current, Here))

VisitCallExpression ==
    /\ Traversing
    /\ NodeAt(prog, Here).type = "CallExpression"
    /\ Leave(CallExpression(prog, Current, Here))

\* for (const path of pathsToRemove) if (path.node) path.remove()
RemovePath ==
    /\ phase = "run" /\ pos > Len(queue)
    /\ ri <= Len(pathsToRemove)
    /\ LET m == RemoveOne(prog, tree, pathsToRemove[ri])
       IN /\ tree' = m
          /\ phase' = IF m.err THEN "error" ELSE "run"
    /\ ri' = ri + 1
    /\ UNCHANGED <<prog, pos, debugReferences, pathsToRemove, replaced, queue, scope>>

\* The visitor returns.
ProgramExit ==
    /\ phase = "run" /\ pos > Len(queue)
    /\ ri > Len(pathsToRemove)
    /\ phase' = "done"
    /\ UNCHANGED <<prog, pos, debugReferences, pathsToRemove, replaced, tree, ri,
                 queue, scope>>

Init ==
    /\ prog \in Programs
    /\ phase = "run"
    /\ pos = 1
    /\ debugReferences = {}
    /\ pathsToRemove = <<>>
    /\ replaced = {}
    /\ tree = Intact
    /\ ri = 1
    /\ queue = Visits(prog)
    /\ scope = Bindings(prog)

Next ==
    \/ VisitVariableDeclarator
    \/ VisitImportDeclaration
    \/ VisitIdentifier
    \/ VisitCallExpression
    \/ RemovePath
    \/ ProgramExit

Spec == Init /\ [][Next]_vars

\* The tree as it stands.
Output == Render(prog, tree, replaced, <<>>)

Done == phase = "done"


----------------------------------------------------------------------------
(* Vocabulary of the properties *)

Paths == Range(AllPaths(prog))

PathsOfType(type) == TypedPaths(prog, <<>>, type)

VisitIndex(p) == CHOOSE i \in 1..Len(queue) : queue[i] = p

\* The handler of the node at p has run.
Visited(p) == VisitIndex(p) < pos

\* The handlers of all the nodes at and below p have run.
SubtreeVisited(p) == \A i \in 1..Len(queue) : IsPrefix(p, queue[i]) => i < pos

Marked(p) == p \in Range(pathsToRemove)

\* The node at p is still part of the tree.
Present(p) ==
    \A i \in 1..Len(p) : SubSeq(p, 1, i) \notin tree.spliced \cup tree.nulled

\* The identifier that declares the binding `name`.
BindingPath(name) ==
    CHOOSE p \in Paths : IsBindingIdentifier(prog, p) /\ NodeAt(prog, p).name = name

\* The binding `name` is tainted and is declared before the node at p, so it
\* was tainted when the node at p was visited: a binding is tainted during
\* the visit of the statement that declares it.
TaintedBefore(name, p) ==
    /\ name \in scope
    /\ name \in debugReferences
    /\ VisitIndex(BindingPath(name)) < VisitIndex(p)

IdOf(d) == NodeAt(prog, d).kids[1]
InitOf(d) == NodeAt(prog, d).kids[2]

\* The statement (or declarator-holding declaration) that encloses p.
RECURSIVE EnclosingStatement(_)
EnclosingStatement(p) ==
    IF NodeAt(prog, p).type \in {"ExpressionStatement", "VariableDeclaration",
                                 "ImportDeclaration", "FunctionDeclaration"}
    THEN p
    ELSE EnclosingStatement(Parent(p))

----------------------------------------------------------------------------
(* C1 *)

IsSeedDeclarator(d) ==
    /\ HasInit(NodeAt(prog, d))
    /\ \/ IsRequireDebug(InitOf(d))
       \/ InitOf(d).type = "CallExpression" /\ IsRequireDebug(InitOf(d).kids[1])

DebugImports == {p \in PathsOfType("ImportDeclaration") : NodeAt(prog, p).name = "debug"}

SeedDeclarators ==
    {d \in PathsOfType("VariableDeclarator") :
        IsSeedDeclarator(d) /\ IdOf(d).type = "Identifier"}

----------------------------------------------------------------------------
(* C2 *)

IsSimplePattern(n) ==
    /\ n.type = "ObjectPattern"
    /\ \A i \in 1..Len(n.kids) :
          n.kids[i].type = "ObjectProperty" /\ n.kids[i].kids[1].type = "Identifier"

\* The binding the declarator at d derives its value from, by one of the
\* four forms x = t(...), x = t, x = t.p, {p, q} = t; Undefined otherwise.
SourceOf(d) ==
    LET n == NodeAt(prog, d)
        id == n.kids[1]
        init == n.kids[2]
    IN IF ~HasInit(n) THEN Undefined
       ELSE IF id.type = "Identifier" /\ init.type = "CallExpression"
       THEN NameOf(init.kids[1])
       ELSE IF id.type = "Identifier" /\ init.type = "Identifier"
       THEN init.name
       ELSE IF id.type = "Identifier" /\ init.type = "MemberExpression"
       THEN NameOf(init.kids[1])
       ELSE IF IsSimplePattern(id) /\ init.type = "Identifier"
       THEN init.name
       ELSE Undefined

DeclaredNames(d) ==
    IF IdOf(d).type = "Identifier" THEN {IdOf(d).name}
    ELSE {IdOf(d).kids[i].kids[1].name : i \in 1..Len(IdOf(d).kids)}

\* The declarators derived from a binding that was tainted when they were
\* visited.
DerivedDeclarators ==
    {d \in PathsOfType("VariableDeclarator") : TaintedBefore(SourceOf(d), d)}

\* C2: once the traversal has been through a declarator that derives its
\* binding(s) from an already tainted binding (call result, alias, property
\* extraction, object destructuring), the declared bindings are tainted and
\* the declarator is marked; in the end the declarator is gone.  Chains of
\* derivations follow, each link being such a declarator.  The patterns are
\* those of the form {p, q}; a pattern with a rest element is the shape of C8.
C2_TaintClosure ==
    \A d \in DerivedDeclarators :
        /\ SubtreeVisited(d) =>
              /\ DeclaredNames(d) \subseteq debugReferences
              /\ Marked(getVariablePathToRemove(prog, d))
        /\ Done => ~Present(d)

\* A chain of two derivations after the seed, of different forms, all gone.
C2_Witness ==
    /\ Done
    /\ Len(prog.kids) = 3
    /\ \E d1, d2 \in DerivedDeclarators :
          /\ SourceOf(d1) = "d" /\ DeclaredNames(d1) = {"a"}
          /\ SourceOf(d2) = "a" /\ DeclaredNames(d2) = {"b"}
          /\ InitOf(d2).type = "MemberExpression"
          /\ ~Present(d1) /\ ~Present(d2)
    /\ {"d", "a", "b"} \subseteq debugReferences
    /\ Output.kids = <<>>


----------------------------------------------------------------------------
(* C3 *)

\* A declarator is target-derived when it is a require("debug") declarator
\* or derives its binding from a tainted binding.
TargetDerived(d) ==
    \/ IsSeedDeclarator(d)
    \/ SourceOf(d) \in debugReferences

\* The declarators of the declaration at v that are target-derived.
DerivedIn(v) == {i \in 1..Len(NodeAt(prog, v).kids) : TargetDerived(Append(v, i))}

RECURSIVE Others(_, _, _)
Others(kids, J, i) ==
    IF i > Len(kids) THEN <<>>
    ELSE IF i \in J THEN Others(kids, J, i + 1)
    ELSE <<kids[i]>> \o Others(kids, J, i + 1)

\* C3: in the end, a declaration with k declarators of which j, 0 < j < k,
\* are target-derived is still there and holds exactly the other k - j
\* declarators, in their original order.
C3_DeclaratorSplitting ==
    Done =>
        \A v \in PathsOfType("VariableDeclaration") :
            LET k == Len(NodeAt(prog, v).kids)
                J == DerivedIn(v)
            IN (J # {} /\ Cardinality(J) < k) =>
                  /\ Present(v)
                  /\ Render(prog, tree, replaced, v).kids
                        = Others(NodeAt(prog, v).kids, J, 1)

----------------------------------------------------------------------------
(* C4 *)

\* The tree n holds no import of "debug" and no require("debug") call.
RECURSIVE NoDebug(_)
NoDebug(n) ==
    /\ ~(n.type = "ImportDeclaration" /\ n.name = "debug")
    /\ ~IsRequireDebug(n)
    /\ \A i \in 1..Len(n.kids) : NoDebug(n.kids[i])

\* C4: for a program with no import of "debug" and no require("debug") call,
\* at every point of the run the tainted set is empty, nothing is marked or
\* replaced, nothing has been removed and the tree equals the input.
C4_Conservation ==
    NoDebug(prog) =>
        /\ debugReferences = {}
        /\ pathsToRemove = <<>>
        /\ replaced = {}
        /\ tree = Intact
        /\ Output = prog

\* A finished run on a three-statement program that imports another module,
\* declares from it and calls.
C4_Witness ==
    /\ Done
    /\ NoDebug(prog)
    /\ Len(prog.kids) = 3
    /\ prog.kids[1].type = "ImportDeclaration"
    /\ \E i \in 2..3 : prog.kids[i].type = "VariableDeclaration"
    /\ Output = prog

----------------------------------------------------------------------------
(* C5 *)

\* The property reads t.p that are an argument of a call, t being tainted
\* when the read is visited.
ArgumentReads ==
    {m \in PathsOfType("MemberExpression") :
        /\ NodeAt(prog, Parent(m)).type = "CallExpression" /\ Key(m) > 1
        /\ NodeAt(prog, m).kids[1].type = "Identifier"
        /\ TaintedBefore(NodeAt(prog, m).kids[1].name, Append(m, 1))}

\* The property reads t.p that are the callee of a call, likewise.
CalleeReads ==
    {m \in PathsOfType("MemberExpression") :
        /\ NodeAt(prog, Parent(m)).type = "CallExpression" /\ Key(m) = 1
        /\ NodeAt(prog, m).kids[1].type = "Identifier"
        /\ TaintedBefore(NodeAt(prog, m).kids[1].name, Append(m, 1))}

\* C5: a property read of a tainted binding that is an argument of a call is
\* replaced by `undefined`, whatever encloses the call: the enclosing
\* statement is not marked and stays, and the read taints no binding of an
\* enclosing declarator; a property read that is the callee of a call has its
\* enclosing statement removed.
C5_PlaceholderForReads ==
    /\ \A m \in ArgumentReads :
          Visited(Append(m, 1)) =>
              /\ m \in replaced
              /\ ~Marked(EnclosingStatement(m))
              /\ FindDeclarator(prog, m) # NoPath =>
                    /\ ~Marked(FindDeclarator(prog, m))
                    /\ NameOf(IdOf(FindDeclarator(prog, m))) \notin debugReferences
              /\ Done => Present(m)
    /\ \A m \in CalleeReads :
          Done => ~Present(Parent(m))

----------------------------------------------------------------------------
(* C6 *)

\* The direct calls b(...) and method calls b.m(...) of a binding b.
CallsOf(b) ==
    {c \in PathsOfType("CallExpression") :
        LET callee == NodeAt(prog, c).kids[1]
        IN \/ callee.type = "Identifier" /\ callee.name = b
           \/ /\ callee.type = "MemberExpression"
              /\ callee.kids[1].type = "Identifier" /\ callee.kids[1].name = b}

\* C6: when the analysis has ended, every direct call and method call of a
\* binding of the final tainted set is covered by the removal plan (the call,
\* or a node around it, is marked), wherever the call stands in the program.
C6_OrderIndependent ==
    (phase = "run" /\ pos > Len(queue)) =>
        \A b \in debugReferences : \A c \in CallsOf(b) :
            \E i \in 0..Len(c) : Marked(SubSeq(c, 1, i))

----------------------------------------------------------------------------
(* C7 *)

\* The tree t holds something a pass acts on: an import of "debug", or a
\* declarator initialised by require("debug") or require("debug")(...).
Residual(t) ==
    \E p \in Range(AllPaths(t)) :
        LET n == NodeAt(t, p)
        IN \/ n.type = "ImportDeclaration" /\ n.name = "debug"
           \/ /\ n.type = "VariableDeclarator" /\ HasInit(n)
              /\ \/ IsRequireDebug(n.kids[2])
                 \/ /\ n.kids[2].type = "CallExpression"
                    /\ IsRequireDebug(n.kids[2].kids[1])

\* C7: the tree that a run which ends leaves behind is a fixed point of the
\* transform -- a second pass over it changes nothing -- and it holds no
\* import of "debug" and no require("debug") declarator for a second pass to
\* act on.  (A run that throws leaves no output to transform again.)
C7_Idempotent ==
    Done => /\ Transform(Output) = Output
            /\ ~Residual(Output)

\* A finished run on a program with a seed, which removed something and left
\* something, and whose output a second pass leaves alone.
C7_Witness ==
    /\ Done
    /\ Residual(prog)
    /\ Output # prog
    /\ Output.kids # <<>>
    /\ Transform(Output) = Output

----------------------------------------------------------------------------
(* C8 *)

\* C8: the transform never ends in an error.
C8_NeverThrows == phase # "error"

----------------------------------------------------------------------------
(* C9 *)

\* C9: every path collected for removal is a statement, a declaration or a
\* declarator, or at least the whole expression of an expression statement,
\* so that removing it removes the nearest enclosing statement -- never an
\* expression nested inside another expression.
C9_StatementsOnly ==
    \A p \in Range(pathsToRemove) :
        \/ NodeAt(prog, p).type \in {"ExpressionStatement", "VariableDeclaration",
                                     "ImportDeclaration", "FunctionDeclaration",
                                     "VariableDeclarator"}
        \/ NodeAt(prog, Parent(p)).type = "ExpressionStatement"

----------------------------------------------------------------------------
(* C10 *)

\* The identifiers that use a binding and are printed: not a declaring
\* identifier, still in the tree, not inside a replaced member expression.
SurvivingReferences ==
    {p \in PathsOfType("Identifier") :
        /\ ~IsBindingIdentifier(prog, p)
        /\ NodeAt(prog, p).name \in scope
        /\ Present(p)
        /\ \A i \in 0..Len(p) : SubSeq(p, 1, i) \notin replaced}

\* C10: in the end, every surviving reference resolves to a binding whose
\* declaration survives too.
C10_NoDanglingReference ==
    Done => \A p \in SurvivingReferences : Present(BindingPath(NodeAt(prog, p).name))


====
